---- MODULE Spec2Model ----
(***************************************************************************)
(* Model of app.py: the academic-calendar text extractor                   *)
(* (extract_semester_dates_and_holidays), the main script logic and the    *)
(* recurring-event generator (generate_ics).                               *)
(*                                                                         *)
(* A document text is a sequence of tokens.  A token is one of the         *)
(* substrings the code looks for (a semester word, a marker phrase, a      *)
(* line break) or a date string "Month D, YYYY".  Python datetimes are     *)
(* records [kind, day, tod]: day is the proleptic Gregorian ordinal        *)
(* (date.toordinal), tod the time of day in clock ticks (0 = midnight);    *)
(* datetime.date values have kind "date" and tod 0.                        *)
(***************************************************************************)
EXTENDS Integers, Sequences, FiniteSets, TLC

VARIABLES pc, text, extraction, semester, start_date, end_date, holidays,
          course_data, timezone_str, ci, di, current_date, emitted,
          warnings, returned, call, first_emitted, first_returned

vars == <<pc, text, extraction, semester, start_date, end_date, holidays,
          course_data, timezone_str, ci, di, current_date, emitted,
          warnings, returned, call, first_emitted, first_returned>>

(***************************************************************************)
(* Bounds of the model                                                     *)
(***************************************************************************)
MaxTextLen == 5
MaxDocLen == 2
MaxCourses == 2

(***************************************************************************)
(* Calendar arithmetic (datetime, timedelta, strptime)                     *)
(***************************************************************************)
MonthNames == <<"January", "February", "March", "April", "May", "June", "July",
                "August", "September", "October", "November", "December">>

MonthIndex(m) == CHOOSE i \in 1..12 : MonthNames[i] = m

IsLeap(y) == (y % 4 = 0) /\ ((y % 100 # 0) \/ (y % 400 = 0))

DaysInMonth(y, m) ==
  IF m = 2 THEN (IF IsLeap(y) THEN 29 ELSE 28)
  ELSE IF m \in {4, 6, 9, 11} THEN 30 ELSE 31

RECURSIVE DaysBeforeMonth(_, _)
DaysBeforeMonth(y, m) ==
  IF m = 1 THEN 0 ELSE DaysBeforeMonth(y, m - 1) + DaysInMonth(y, m - 1)

ToOrdinal(y, m, d) ==
  365 * (y - 1) + ((y - 1) \div 4) - ((y - 1) \div 100) + ((y - 1) \div 400)
  + DaysBeforeMonth(y, m) + d

\* date.weekday(): Monday = 0 ... Sunday = 6
WeekdayOf(dt) == (dt.day + 6) % 7

DateTime(y, m, d) == [kind |-> "datetime", day |-> ToOrdinal(y, m, d), tod |-> 0]

PlusDays(dt, n) == [dt EXCEPT !.day = @ + n]

\* datetime <= datetime and date <= date
DateLE(a, b) == (a.day < b.day) \/ (a.day = b.day /\ a.tod <= b.tod)

\* one day has TicksPerDay clock readings; reading 0 is midnight
TicksPerDay == 2

ClockReading(day, tod) == [kind |-> "datetime", day |-> day, tod |-> tod]

LaterReading(now) ==
  IF now.tod + 1 < TicksPerDay THEN [now EXCEPT !.tod = @ + 1]
  ELSE [now EXCEPT !.day = @ + 1, !.tod = 0]

(***************************************************************************)
(* Document text                                                           *)
(***************************************************************************)
Word(k, s) == [kind |-> k, s |-> s, day |-> 0, year |-> 0]
DateStr(m, d, y) == [kind |-> "date", s |-> m, day |-> d, year |-> y]

Spring == Word("word", "Spring")
Summer == Word("word", "Summer")
Fall == Word("word", "Fall")
FirstDay == Word("marker", "First day of classes")
EndOfTerm == Word("marker", "End of term")
Holiday == Word("marker", "Holiday")
Newline == Word("nl", "\n")

Aug18 == DateStr("August", 18, 2025)
Aug20 == DateStr("August", 20, 2025)
Aug25 == DateStr("August", 25, 2025)
Aug32 == DateStr("August", 32, 2025)
Dec15 == DateStr("December", 15, 2025)

Alphabet == {Spring, Fall, FirstDay, EndOfTerm, Holiday, Newline,
             Aug18, Aug20, Aug25, Aug32, Dec15}

TextsUpTo(n) == UNION {[1..k -> Alphabet] : k \in 0..n}

\* the clock readings datetime.today() may return
Clocks == {ClockReading(ToOrdinal(2025, 8, 18), t) : t \in 0..(TicksPerDay - 1)}

Contains(t, w) == \E i \in 1..Len(t) : t[i] = w

(***************************************************************************)
(* extract_semester_dates_and_holidays                                     *)
(***************************************************************************)
SemesterOf(t) ==
  IF Contains(t, Spring) THEN "Spring"
  ELSE IF Contains(t, Summer) THEN "Summer"
  ELSE IF Contains(t, Fall) THEN "Fall"
  ELSE "Unknown"

MonthPattern(sem) ==
  IF sem = "Spring" THEN {"January", "February", "March", "April", "May"}
  ELSE IF sem = "Summer" THEN {"May", "June", "July", "August"}
  ELSE IF sem = "Fall" THEN {"August", "September", "October", "November", "December"}
  ELSE {MonthNames[i] : i \in 1..12}

FallbackStart(sem, now) ==
  IF sem = "Spring" THEN DateTime(2025, 1, 6)
  ELSE IF sem = "Summer" THEN DateTime(2025, 5, 15)
  ELSE IF sem = "Fall" THEN DateTime(2025, 8, 20)
  ELSE now

FallbackEnd(sem, now) ==
  IF sem = "Spring" THEN DateTime(2025, 5, 1)
  ELSE IF sem = "Summer" THEN DateTime(2025, 8, 10)
  ELSE IF sem = "Fall" THEN DateTime(2025, 12, 15)
  ELSE PlusDays(now, 7 * 16)

\* "((?:months) \d{1,2}, \d{4})" at position j
IsDateMatch(t, j, months) == t[j].kind = "date" /\ t[j].s \in months

\* "marker.*?(date)" anchored at the marker at position i: the nearest date
\* after i that '.' can reach ('.' does not match a line break); 0 if none
LazyDateAfter(t, i, months) ==
  LET js == {j \in (i + 1)..Len(t) :
               /\ IsDateMatch(t, j, months)
               /\ \A k \in (i + 1)..(j - 1) : t[k].kind # "nl"}
  IN IF js = {} THEN 0 ELSE CHOOSE j \in js : \A k \in js : j <= k

\* re.search from position from: the leftmost marker that matches; 0 if none
SearchFrom(t, markers, months, from) ==
  LET is == {i \in from..Len(t) :
               /\ t[i].kind = "marker" /\ t[i].s \in markers
               /\ LazyDateAfter(t, i, months) # 0}
  IN IF is = {} THEN 0 ELSE CHOOSE i \in is : \A k \in is : i <= k

\* re.search(...).group(1) as a position in the text; 0 when there is no match
Search(t, markers, months) ==
  LET i == SearchFrom(t, markers, months, 1)
  IN IF i = 0 THEN 0 ELSE LazyDateAfter(t, i, months)

HolidayMarkers == {"Holiday", "Break", "No classes", "Campus closed"}

\* re.findall: the non-overlapping matches, left to right
RECURSIVE FindAll(_, _, _, _)
FindAll(t, markers, months, from) ==
  LET i == SearchFrom(t, markers, months, from)
  IN IF i = 0 THEN {}
     ELSE LET j == LazyDateAfter(t, i, months)
          IN {j} \cup FindAll(t, markers, months, j + 1)

\* datetime.strptime(s, "%B %d, %Y") raises ValueError for an impossible date
StrptimeOK(tok) ==
  /\ tok.year >= 1
  /\ tok.day >= 1
  /\ tok.day <= DaysInMonth(tok.year, MonthIndex(tok.s))

Strptime(tok) == DateTime(tok.year, MonthIndex(tok.s), tok.day)

\* no value: an unassigned variable, or the result of a call that raised
NoDate == [kind |-> "none", day |-> 0, tod |-> 0]

Extract(t, now1, now2) ==
  LET sem == SemesterOf(t)
      months == MonthPattern(sem)
      start_match == Search(t, {"First day of classes"}, months)
      end_match == Search(t, {"End of term"}, months)
      holiday_matches == FindAll(t, HolidayMarkers, months, 1)
      used == (IF start_match = 0 THEN {} ELSE {start_match})
              \cup (IF end_match = 0 THEN {} ELSE {end_match})
              \cup holiday_matches
  IN IF \E j \in used : ~StrptimeOK(t[j])
     THEN [raised |-> TRUE, semester |-> sem,
           start_date |-> NoDate, end_date |-> NoDate, holidays |-> {}]
     ELSE [raised |-> FALSE, semester |-> sem,
           start_date |-> IF start_match = 0 THEN FallbackStart(sem, now1)
                          ELSE Strptime(t[start_match]),
           end_date |-> IF end_match = 0 THEN FallbackEnd(sem, now2)
                        ELSE Strptime(t[end_match]),
           holidays |-> {Strptime(t[j]).day : j \in holiday_matches}]

(***************************************************************************)
(* Form input (get_course_input)                                           *)
(***************************************************************************)
DaySymbols == <<"MO", "TU", "WE", "TH", "FR">>

\* ["MO", "TU", "WE", "TH", "FR"].index(day)
WeekdayIndex(day) == (CHOOSE i \in 1..5 : DaySymbols[i] = day) - 1

\* st.multiselect: the chosen symbols in selection order, none twice
DaySelections == {<<"WE", "MO">>}

StartTimes == {10, 11}
EndTimes == {11}

Courses ==
  [subject : {"CS101"}, teacher : {"Turing"}, location : {"Room 1"},
   days : DaySelections, start_time : StartTimes, end_time : EndTimes]

\* st.number_input(min_value=1): at least one course
CourseLists == UNION {[1..k -> Courses] : k \in 1..MaxCourses}

\* pytz.all_timezones, and a string that is not in it
AllTimezones == {"US/Eastern"}
TimezoneStrings == AllTimezones \cup {"Mars/Olympus"}

\* st.date_input returns datetime.date values
DateInput(day) == [kind |-> "date", day |-> day, tod |-> 0]
ManualDays == {ToOrdinal(2025, 8, 18), ToOrdinal(2025, 8, 25)}

(***************************************************************************)
(* generate_ics                                                            *)
(***************************************************************************)
NoExtraction == [raised |-> FALSE, semester |-> "Unknown", start_date |-> NoDate,
                 end_date |-> NoDate, holidays |-> {}]

\* a calendar kept from one call to the next
SharedCalendar == emitted

\* cal = Calendar()
NewCalendar == <<>>

\* a zone name that is looked up nowhere
TimezoneUnchecked(tz) == TRUE

\* pytz.timezone(timezone_str) raises UnknownTimeZoneError for an unknown name
TimezoneKnown(tz) == tz \in AllTimezones

\* days_ahead = (weekday_int - start_date.weekday() + 7) % 7
DaysAhead(day, start) == (WeekdayIndex(day) - WeekdayOf(start) + 7) % 7

FirstOccurrence(day, start) == PlusDays(start, DaysAhead(day, start))

\* current_date += timedelta(days=7)
NextOccurrence(d) == PlusDays(d, 7)

\* current_date <= end_date
InRange(d, last) == DateLE(d, last)

\* "current_date in holidays": a datetime is never equal to a date
IsHolidayWithoutDate(d, hs) == FALSE

\* current_date.date() in holidays
IsHoliday(d, hs) == d.day \in hs

\* dtend <= dtstart, both combined with the same date
InvalidTimes(course) == course.end_time <= course.start_time

\* datetime.combine(current_date, t), localized to the zone
Localized(d, t, tz) == [day |-> d.day, time |-> t, tz |-> tz]

MakeEvent(course, d, tz) ==
  [name |-> course.subject,
   begin |-> Localized(d, course.start_time, tz),
   end |-> Localized(d, course.end_time, tz),
   location |-> course.location,
   description |-> <<course.subject, " - ", course.teacher>>]

\* the event put in front of the others
AddEventFirst(events, c, s, ev) == <<[course |-> c, sel |-> s, event |-> ev]>> \o events

\* cal.events.add(event); course and sel record which loop iteration added it
AddEvent(events, c, s, ev) == Append(events, [course |-> c, sel |-> s, event |-> ev])

Reverse(s) == [i \in 1..Len(s) |-> s[Len(s) + 1 - i]]

\* cal.events is a set: the order in which the returned collection is
\* iterated (and serialized) is not fixed by the order of insertion.  Two of
\* the possible orders are explored: the insertion order and its reverse.
IterationOrders(events) == {events, Reverse(events)}

(***************************************************************************)
(* Main logic                                                              *)
(***************************************************************************)
Init ==
  /\ pc = "main"
  /\ text = <<>>
  /\ extraction = NoExtraction
  /\ semester = "Unknown"
  /\ start_date = NoDate
  /\ end_date = NoDate
  /\ holidays = {}
  /\ course_data = <<>>
  /\ timezone_str = ""
  /\ ci = 0
  /\ di = 0
  /\ current_date = NoDate
  /\ emitted = <<>>
  /\ warnings = <<>>
  /\ returned = <<>>
  /\ call = 0
  /\ first_emitted = <<>>
  /\ first_returned = <<>>

genVars == <<course_data, timezone_str, ci, di, current_date, emitted,
             warnings, returned, call, first_emitted, first_returned>>

\* lines 14-42: the body of the extractor on a document of at most n tokens
ReadPdf(n) ==
  /\ pc = "main"
  /\ \E t \in TextsUpTo(n), now \in Clocks :
       \E now2 \in {now, LaterReading(now)} :
          /\ text' = t
          /\ extraction' = Extract(t, now, now2)
  /\ pc' = "extracted"
  /\ UNCHANGED <<semester, start_date, end_date, holidays>>
  /\ UNCHANGED genVars

UploadPdf == ReadPdf(MaxDocLen)

UploadLongPdf == ReadPdf(MaxTextLen)

\* line 44 and line 136
ExtractReturn ==
  /\ pc = "extracted"
  /\ ~extraction.raised
  /\ semester' = extraction.semester
  /\ start_date' = extraction.start_date
  /\ end_date' = extraction.end_date
  /\ holidays' = extraction.holidays
  /\ text' = <<>>
  /\ extraction' = NoExtraction
  /\ pc' = "form"
  /\ UNCHANGED genVars

\* lines 37, 38, 42: strptime raises ValueError
ExtractRaise ==
  /\ pc = "extracted"
  /\ extraction.raised
  /\ pc' = "value_error"
  /\ UNCHANGED <<text, extraction, semester, start_date, end_date, holidays>>
  /\ UNCHANGED genVars

\* lines 141-144
ManualDates ==
  /\ pc = "main"
  /\ \E s \in ManualDays, e \in ManualDays :
       /\ start_date' = DateInput(s)
       /\ end_date' = DateInput(e)
  /\ semester' = "Other"
  /\ holidays' = {}
  /\ pc' = "form"
  /\ UNCHANGED <<text, extraction>>
  /\ UNCHANGED genVars

\* lines 146-148
Submit ==
  /\ pc = "form"
  /\ course_data' \in CourseLists
  /\ timezone_str' \in TimezoneStrings
  /\ call' = 1
  /\ pc' = "gen"
  /\ UNCHANGED <<text, extraction, semester, start_date, end_date, holidays,
                 ci, di, current_date, emitted, warnings, returned,
                 first_emitted, first_returned>>

inputVars == <<text, extraction, semester, start_date, end_date, holidays,
               course_data, timezone_str, call, first_emitted, first_returned>>

\* lines 98-99 with a known zone
GenStart ==
  /\ pc = "gen"
  /\ TimezoneKnown(timezone_str)
  /\ emitted' = NewCalendar
  /\ ci' = 1
  /\ di' = 1
  /\ pc' = "for"
  /\ UNCHANGED <<current_date, warnings, returned>>
  /\ UNCHANGED inputVars

\* lines 98-99 with an unknown zone
TimezoneError ==
  /\ pc = "gen"
  /\ ~TimezoneKnown(timezone_str)
  /\ emitted' = NewCalendar
  /\ pc' = "tz_error"
  /\ UNCHANGED <<ci, di, current_date, warnings, returned>>
  /\ UNCHANGED inputVars

\* line 101: the course list is exhausted
ForDone ==
  /\ pc = "for"
  /\ ci > Len(course_data)
  /\ pc' = "return"
  /\ UNCHANGED <<ci, di, current_date, emitted, warnings, returned>>
  /\ UNCHANGED inputVars

\* line 102: the day list of the course is exhausted
NextCourse ==
  /\ pc = "for"
  /\ ci <= Len(course_data)
  /\ di > Len(course_data[ci].days)
  /\ ci' = ci + 1
  /\ di' = 1
  /\ UNCHANGED <<pc, current_date, emitted, warnings, returned>>
  /\ UNCHANGED inputVars

\* lines 102-105
EnterDay ==
  /\ pc = "for"
  /\ ci <= Len(course_data)
  /\ di <= Len(course_data[ci].days)
  /\ current_date' = FirstOccurrence(course_data[ci].days[di], start_date)
  /\ pc' = "while"
  /\ UNCHANGED <<ci, di, emitted, warnings, returned>>
  /\ UNCHANGED inputVars

\* line 107: the condition is false
WhileExit ==
  /\ pc = "while"
  /\ ~InRange(current_date, end_date)
  /\ di' = di + 1
  /\ pc' = "for"
  /\ UNCHANGED <<ci, current_date, emitted, warnings, returned>>
  /\ UNCHANGED inputVars

\* line 108: datetime.date has no method date()
DateAttributeError ==
  /\ pc = "while"
  /\ InRange(current_date, end_date)
  /\ current_date.kind = "date"
  /\ pc' = "attr_error"
  /\ UNCHANGED <<ci, di, current_date, emitted, warnings, returned>>
  /\ UNCHANGED inputVars

\* lines 108-110
SkipHoliday ==
  /\ pc = "while"
  /\ InRange(current_date, end_date)
  /\ current_date.kind = "datetime"
  /\ IsHoliday(current_date, holidays)
  /\ current_date' = NextOccurrence(current_date)
  /\ UNCHANGED <<pc, ci, di, emitted, warnings, returned>>
  /\ UNCHANGED inputVars

\* lines 112-118
SkipInvalid ==
  /\ pc = "while"
  /\ InRange(current_date, end_date)
  /\ current_date.kind = "datetime"
  /\ ~IsHoliday(current_date, holidays)
  /\ InvalidTimes(course_data[ci])
  /\ warnings' = Append(warnings, [course |-> ci, sel |-> di, day |-> current_date.day])
  /\ current_date' = NextOccurrence(current_date)
  /\ UNCHANGED <<pc, ci, di, emitted, returned>>
  /\ UNCHANGED inputVars

\* lines 112-128
EmitEvent ==
  /\ pc = "while"
  /\ InRange(current_date, end_date)
  /\ current_date.kind = "datetime"
  /\ ~IsHoliday(current_date, holidays)
  /\ ~InvalidTimes(course_data[ci])
  /\ emitted' = AddEvent(emitted, ci, di, MakeEvent(course_data[ci], current_date, timezone_str))
  /\ current_date' = NextOccurrence(current_date)
  /\ UNCHANGED <<pc, ci, di, warnings, returned>>
  /\ UNCHANGED inputVars

\* line 130, and the iteration of the returned set at line 149
Return ==
  /\ pc = "return"
  /\ returned' \in IterationOrders(emitted)
  /\ pc' = "done"
  /\ UNCHANGED <<ci, di, current_date, emitted, warnings>>
  /\ UNCHANGED inputVars

\* a second call of generate_ics with the same arguments
CallAgain ==
  /\ pc = "done"
  /\ call = 1
  /\ call' = 2
  /\ first_emitted' = emitted
  /\ first_returned' = returned
  /\ warnings' = <<>>
  /\ returned' = <<>>
  /\ pc' = "gen"
  /\ UNCHANGED <<text, extraction, semester, start_date, end_date, holidays,
                 course_data, timezone_str, ci, di, current_date, emitted>>

Next ==
  \/ UploadPdf
  \/ ExtractReturn
  \/ ExtractRaise
  \/ ManualDates
  \/ Submit
  \/ GenStart
  \/ TimezoneError
  \/ ForDone
  \/ NextCourse
  \/ EnterDay
  \/ WhileExit
  \/ DateAttributeError
  \/ SkipHoliday
  \/ SkipInvalid
  \/ EmitEvent
  \/ Return
  \/ CallAgain

Spec == Init /\ [][Next]_vars

\* the extractor alone, on longer documents
NextExtract ==
  \/ UploadLongPdf
  \/ ExtractReturn
  \/ ExtractRaise

SpecExtract == Init /\ [][NextExtract]_vars

TypeOK ==
  /\ pc \in {"main", "extracted", "value_error", "form", "gen", "tz_error", "for",
             "while", "attr_error", "return", "done"}
  /\ call \in 0..2
  /\ holidays \subseteq Int

(***************************************************************************)
(* Vocabulary of the properties                                            *)
(***************************************************************************)
Pairs == UNION {{<<c, s>> : s \in 1..Len(course_data[c].days)} : c \in 1..Len(course_data)}

SymbolOf(p) == course_data[p[1]].days[p[2]]

\* positions in the calendar of the events that pair p added
EventsOf(p) == {i \in 1..Len(emitted) : emitted[i].course = p[1] /\ emitted[i].sel = p[2]}

EventDays(p) == {emitted[i].event.begin.day : i \in EventsOf(p)}

WarningsOf(p) == {i \in 1..Len(warnings) : warnings[i].course = p[1] /\ warnings[i].sel = p[2]}

WarningDays(p) == {warnings[i].day : i \in WarningsOf(p)}

\* the calendar day of the earliest date on or after start_date with p's weekday
FirstDayOf(p) ==
  CHOOSE d \in start_date.day..(start_date.day + 6) : (d + 6) % 7 = WeekdayIndex(SymbolOf(p))

\* the days of { first + 7k : k >= 0, first + 7k <= end_date }
OccurrenceDays(p) ==
  LET first == FirstDayOf(p)
      weekly == {first + 7 * k : k \in 0..((end_date.day - first) \div 7)}
  IN {d \in weekly : d < end_date.day \/ start_date.tod <= end_date.tod}

ValidTimes(c) == course_data[c].end_time > course_data[c].start_time

EventFields(log) == [i \in 1..Len(log) |-> log[i].event]

\* courses in input order, then weekday symbols in selection order, then dates
Before(a, b) ==
  \/ a.course < b.course
  \/ a.course = b.course /\ a.sel < b.sel
  \/ a.course = b.course /\ a.sel = b.sel /\ a.event.begin.day < b.event.begin.day

\* Before is a strict order, so comparing neighbours compares every two events
EmissionOrdered(log) == \A i \in 1..(Len(log) - 1) : Before(log[i], log[i + 1])

C2_ExactDates ==
  (pc \in {"done", "attr_error"}) =>
     \A p \in Pairs : ValidTimes(p[1]) => EventDays(p) = OccurrenceDays(p) \ holidays

(***************************************************************************)
(* C3: for dates returned by the extractor, a pair whose first occurrence  *)
(* is on the calendar date of end_date (no holiday, valid times) has       *)
(* exactly one event, and one whose first occurrence is the day after      *)
(* end_date has none.                                                      *)
(***************************************************************************)
C3_InclusiveEnd ==
  (pc = "done" /\ start_date.kind = "datetime") =>
     \A p \in Pairs :
        /\ (/\ FirstDayOf(p) = end_date.day
            /\ FirstDayOf(p) \notin holidays
            /\ ValidTimes(p[1]))
           => Cardinality(EventsOf(p)) = 1
        /\ (FirstDayOf(p) = end_date.day + 1) => EventsOf(p) = {}

(***************************************************************************)
(* C4: when the call is over, a course with end_time <= start_time has no  *)
(* event and exactly one warning per occurrence date of each of its pairs, *)
(* and the pairs of every other course have all their events.  Occurrence  *)
(* dates are read here as the dates that are not holidays, the reading     *)
(* that asks least of the code.                                            *)
(***************************************************************************)
C4_InvalidTimesWarned ==
  (pc \in {"done", "attr_error"}) =>
     \A p \in Pairs :
        IF ValidTimes(p[1])
        THEN EventDays(p) = OccurrenceDays(p) \ holidays
        ELSE /\ EventsOf(p) = {}
             /\ WarningDays(p) = OccurrenceDays(p) \ holidays
             /\ Cardinality(WarningsOf(p)) = Cardinality(WarningDays(p))

(***************************************************************************)
(* C5: with a timezone string that names no zone, the call stops at the    *)
(* zone lookup: no event is ever added and no calendar is returned.        *)
(***************************************************************************)
C5_BadTimezoneFatal ==
  (call >= 1 /\ timezone_str \notin AllTimezones) =>
     /\ pc \in {"gen", "tz_error"}
     /\ emitted = <<>>
     /\ returned = <<>>

\* the lookup failed for inputs that would otherwise have produced events
C5_Witness ==
  /\ pc = "tz_error"
  /\ start_date.kind = "datetime"
  /\ \E p \in Pairs : ValidTimes(p[1]) /\ OccurrenceDays(p) \ holidays # {}

(***************************************************************************)
(* C6 as claimed: the events of the returned collection are in emission    *)
(* order.                                                                  *)
(***************************************************************************)
C6_ReturnedOrdered == (pc = "done") => EmissionOrdered(returned)

(***************************************************************************)
(* C6 as amended: events are added to the calendar in emission order:      *)
(* courses in input order, within a course the weekday symbols in          *)
(* selection order, within a symbol chronologically.                       *)
(***************************************************************************)
C6_EmissionOrdered == EmissionOrdered(emitted)

\* two courses, each with events for both of its symbols
C6_Witness ==
  /\ pc = "done"
  /\ Len(course_data) = 2
  /\ \A p \in Pairs : Cardinality(EventsOf(p)) >= 2

(***************************************************************************)
(* C7: a text that contains "Fall" (and no other semester word) and an     *)
(* "End of term" marker directly followed by "December 15, 2025" makes     *)
(* the extractor return end_date = 15 December 2025.                       *)
(***************************************************************************)
C7_FallEndDate ==
  (/\ pc = "extracted"
   /\ Contains(text, Fall) /\ ~Contains(text, Spring) /\ ~Contains(text, Summer)
   /\ \E i \in 1..(Len(text) - 1) : text[i] = EndOfTerm /\ text[i + 1] = Dec15)
  => (~extraction.raised /\ extraction.end_date = DateTime(2025, 12, 15))

(***************************************************************************)
(* C8: when a "First day of classes" marker is followed anywhere later in  *)
(* the text by a date of an accepted month, the start date the extractor   *)
(* returns is such a date and not the fallback.                            *)
(***************************************************************************)
C8_StartAcrossLines ==
  LET months == MonthPattern(SemesterOf(text))
      after == {j \in 1..Len(text) :
                  /\ text[j].kind = "date" /\ text[j].s \in months
                  /\ StrptimeOK(text[j])
                  /\ \E i \in 1..(j - 1) : text[i] = FirstDay}
  IN (pc = "extracted" /\ ~extraction.raised /\ after # {})
     => \E j \in after : extraction.start_date = Strptime(text[j])

(***************************************************************************)
(* C9 as claimed: a second call with the same arguments returns a          *)
(* collection whose events are equal to the first one's in count, order    *)
(* and field values.                                                       *)
(***************************************************************************)
C9_SameReturned ==
  (pc = "done" /\ call = 2) => EventFields(returned) = EventFields(first_returned)

(***************************************************************************)
(* C9 as amended: a second call with the same arguments adds events equal  *)
(* to the first call's in count, order of addition and field values, and   *)
(* the two returned collections hold the same events.                      *)
(***************************************************************************)
C9_SameEmitted ==
  (pc = "done" /\ call = 2) =>
     /\ EventFields(emitted) = EventFields(first_emitted)
     /\ Len(returned) = Len(first_returned)
     /\ {returned[i] : i \in 1..Len(returned)}
          = {first_returned[i] : i \in 1..Len(first_returned)}

\* both calls are over and added several events
C9_Witness ==
  /\ pc = "done"
  /\ call = 2
  /\ Len(emitted) >= 2
  /\ Len(first_emitted) >= 2

(***************************************************************************)
(* C10: with manually entered dates the call completes without error.      *)
(***************************************************************************)
C10_ManualCompletes ==
  (start_date.kind = "date") => pc # "attr_error"

====
